---- MODULE Spec2Model ----
(***************************************************************************)
(* Model of jl_db_comp/routes.py: PostgresCompletionsHandler.get and       *)
(* PostgresCompletionsHandler._fetch_completions.                          *)
(*                                                                         *)
(* Strings are sequences of one-character strings, so that lower-casing,   *)
(* percent-decoding, SQL LIKE matching and line splitting are computed     *)
(* character by character.  A fixed text of the source ("Database error: ")*)
(* is one token at the head of such a sequence.                            *)
(***************************************************************************)
EXTENDS Naturals, Sequences, FiniteSets, TLC

(* ----------------------------- bounds ---------------------------------- *)

\* longest prefix argument a request carries
MaxPrefixLen == 2
\* how many times one request is issued again against the unchanged catalog
MaxRepeats == 1

(* ----------------------------- values ---------------------------------- *)

\* Python's None: the default of get_argument(..., None), os.environ.get
None == <<"None">>
\* an argument whose bytes, b'\xff', are not valid UTF-8 (get_argument raises
\* tornado's HTTPError(400) on it)
BadBytes == <<"BadBytes">>
NL == "\n"

\* variant: a test for None alone, '' counted as a value
Truthy_IsNotNone(x) == x # None
\* Python truthiness of an optional string: None and '' are falsy
Truthy(x) == x # None /\ x # <<>>

\* str.lower() / SQL LOWER() on one character
LowerChar(c) ==
    CASE c = "U" -> "u"
      [] c = "S" -> "s"
      [] c = "A" -> "a"
      [] OTHER -> c

\* str.lower() / SQL LOWER()
Lower(s) == [i \in 1..Len(s) |-> LowerChar(s[i])]

\* the percent escapes unquote() decodes here
HexPairs == {<<"4", "1">>, <<"2", "5">>}
HexChar(p) == IF p = <<"4", "1">> THEN "A" ELSE "%"

\* urllib.parse.unquote: %XX becomes the character, anything else is kept
RECURSIVE unquote(_)
unquote(s) ==
    IF s = <<>> THEN <<>>
    ELSE IF Head(s) = "%" /\ Len(s) >= 3 /\ <<s[2], s[3]>> \in HexPairs
         THEN <<HexChar(<<s[2], s[3]>>)>> \o unquote(SubSeq(s, 4, Len(s)))
         ELSE <<Head(s)>> \o unquote(Tail(s))

\* variant: the message whole, not split
FirstLine_Whole(s) == s
\* str(e).split('\n')[0]
RECURSIVE FirstLine(_)
FirstLine(s) ==
    IF s = <<>> \/ Head(s) = NL THEN <<>>
    ELSE <<Head(s)>> \o FirstLine(Tail(s))

\* SQL: s LIKE p  ('%' any run of characters, '_' any one character,
\* backslash escapes the next pattern character)
RECURSIVE Like(_, _)
Like(s, p) ==
    IF p = <<>> THEN s = <<>>
    ELSE IF Head(p) = "%"
         THEN Like(s, Tail(p)) \/ (s # <<>> /\ Like(Tail(s), p))
    ELSE IF Head(p) = "\\"
         THEN Len(p) >= 2 /\ s # <<>> /\ Head(s) = p[2]
              /\ Like(Tail(s), Tail(Tail(p)))
    ELSE IF Head(p) = "_"
         THEN s # <<>> /\ Like(Tail(s), Tail(p))
    ELSE s # <<>> /\ Head(s) = Head(p) /\ Like(Tail(s), Tail(p))

\* f"{prefix}%"
PrefixPattern(prefix) == prefix \o <<"%">>

\* byte value of a character: ORDER BY table_name compares names bytewise
Code(c) ==
    CASE c = "%" -> 37
      [] c = "A" -> 65
      [] c = "S" -> 83
      [] c = "U" -> 85
      [] c = "_" -> 95
      [] c = "a" -> 97
      [] c = "s" -> 115
      [] c = "u" -> 117
      [] OTHER -> 120

RECURSIVE StrLeq(_, _)
StrLeq(a, b) ==
    IF a = <<>> THEN TRUE
    ELSE IF b = <<>> THEN FALSE
    ELSE IF Head(a) = Head(b) THEN StrLeq(Tail(a), Tail(b))
    ELSE Code(Head(a)) < Code(Head(b))

(* ----------------------------- catalog --------------------------------- *)

Public == <<"p", "u", "b", "l", "i", "c">>
Su == <<"S", "u">>

\* relations a catalog may hold, each with its columns in ordinal order
TableUniverse ==
    { [schema |-> Public, name |-> <<"u", "s">>, type |-> "BASE TABLE",
       cols |-> << [name |-> <<"s", "u">>, dataType |-> "integer"],
                   [name |-> <<"u", "s">>, dataType |-> "text"] >>],
      [schema |-> Public, name |-> <<"U", "s">>, type |-> "BASE TABLE",
       cols |-> << [name |-> <<"S", "u">>, dataType |-> "text"] >>],
      [schema |-> Public, name |-> <<"u", "f">>, type |-> "FOREIGN",
       cols |-> << [name |-> <<"u">>, dataType |-> "integer"] >>],
      [schema |-> Su, name |-> <<"u", "S">>, type |-> "VIEW",
       cols |-> << [name |-> <<"s">>, dataType |-> "text"] >>] }

SchemaUniverse == {Public, Su}

\* a catalog: its schemas, and relations that live in them
Catalogs ==
    { [schemata |-> SchemaUniverse, tables |-> T] : T \in SUBSET TableUniverse }

\* information_schema.tables
InfoTables(cat) ==
    { [table_schema |-> t.schema, table_name |-> t.name, table_type |-> t.type]
        : t \in cat.tables }

\* information_schema.columns
InfoColumns(cat) ==
    UNION { { [table_schema |-> t.schema, table_name |-> t.name,
               column_name |-> t.cols[i].name, data_type |-> t.cols[i].dataType,
               ordinal_position |-> i] : i \in 1..Len(t.cols) } : t \in cat.tables }

\* ORDER BY table_name: every order of the rows the clause allows
RECURSIVE ByTableName(_)
ByTableName(rows) ==
    IF rows = {} THEN {<<>>}
    ELSE UNION { { <<r>> \o rest : rest \in ByTableName(rows \ {r}) }
                 : r \in { x \in rows :
                             \A y \in rows : StrLeq(x.table_name, y.table_name) } }

\* ORDER BY ordinal_position: every order of the rows the clause allows
\* (rows of equal position come in an order the engine picks)
RECURSIVE ByOrdinalPosition(_)
ByOrdinalPosition(rows) ==
    IF rows = {} THEN {<<>>}
    ELSE UNION { { <<r>> \o rest : rest \in ByOrdinalPosition(rows \ {r}) }
                 : r \in { x \in rows :
                             \A y \in rows :
                                x.ordinal_position <= y.ordinal_position } }

\* SELECT schema_name FROM information_schema.schemata
\* WHERE LOWER(schema_name) = %s;  fetchone() is not None
IsSchema(cat, name) == \E s \in cat.schemata : Lower(s) = Lower(name)

\* SELECT table_name, table_type FROM information_schema.tables
\* WHERE table_schema = %s AND table_type IN ('BASE TABLE', 'VIEW')
\*   AND LOWER(table_name) LIKE %s ORDER BY table_name
TablesQuery(cat, schema, pattern) ==
    ByTableName({ r \in InfoTables(cat) :
                    /\ r.table_schema = schema
                    /\ r.table_type \in {"BASE TABLE", "VIEW"}
                    /\ Like(Lower(r.table_name), pattern) })

\* SELECT table_name, column_name, data_type FROM information_schema.columns
\* WHERE table_schema = %s AND LOWER(table_name) = %s
\*   AND LOWER(column_name) LIKE %s ORDER BY ordinal_position
ColumnsQuery(cat, schema, lname, pattern) ==
    ByOrdinalPosition({ r \in InfoColumns(cat) :
                          /\ r.table_schema = schema
                          /\ Lower(r.table_name) = lname
                          /\ Like(Lower(r.column_name), pattern) })

\* {"name": row[0], "type": "view" if row[1] == 'VIEW' else "table"}
TableEntry(row) ==
    [name |-> row.table_name,
     type |-> IF row.table_type = "VIEW" THEN "view" ELSE "table"]

\* {"name": row[1], "table": row[0], "dataType": row[2], "type": "column"}
ColumnEntry(row) ==
    [name |-> row.column_name, table |-> row.table_name,
     dataType |-> row.data_type, type |-> "column"]

TableEntries(rows) == [i \in 1..Len(rows) |-> TableEntry(rows[i])]
ColumnEntries(rows) == [i \in 1..Len(rows) |-> ColumnEntry(rows[i])]

(* --------------------- _fetch_completions: dispatch -------------------- *)

\* a: the handler's locals (schema, prefix, table, schema_or_table)

\* variant: the schema branch querying the schema argument
SchemaTables_OfSchemaArg(cat, a) ==
    { TableEntries(rows) :
        rows \in TablesQuery(cat, a.schema, PrefixPattern(a.prefix)) }
\* schema_or_table names a schema: its tables and views
SchemaTables(cat, a) ==
    { TableEntries(rows) :
        rows \in TablesQuery(cat, a.schema_or_table, PrefixPattern(a.prefix)) }

\* schema_or_table names no schema: columns of that table in the schema
SotColumns(cat, a) ==
    { ColumnEntries(rows) :
        rows \in ColumnsQuery(cat, a.schema, Lower(a.schema_or_table),
                              PrefixPattern(a.prefix)) }

\* table given: columns of that table in the schema
TableColumns(cat, a) ==
    { ColumnEntries(rows) :
        rows \in ColumnsQuery(cat, a.schema, Lower(a.table),
                              PrefixPattern(a.prefix)) }

\* neither given: tables and views of the schema
DefaultTables(cat, a) ==
    { TableEntries(rows) :
        rows \in TablesQuery(cat, a.schema, PrefixPattern(a.prefix)) }

\* the values `tables` can have when the queries have run
FetchTables(cat, a, isSchema) ==
    IF Truthy(a.schema_or_table)
    THEN (IF isSchema THEN SchemaTables(cat, a) ELSE {<<>>})
    ELSE IF Truthy(a.table) THEN {<<>>}
    ELSE DefaultTables(cat, a)

\* variant: the default branch listing the schema's columns as well
FetchColumns_AlsoByDefault(cat, a, isSchema) ==
    IF Truthy(a.schema_or_table)
    THEN (IF isSchema THEN {<<>>} ELSE SotColumns(cat, a))
    ELSE IF Truthy(a.table) THEN TableColumns(cat, a)
    ELSE { ColumnEntries(rows) :
             rows \in ByOrdinalPosition({ r \in InfoColumns(cat) :
                                            r.table_schema = a.schema }) }
\* the values `columns` can have when the queries have run
FetchColumns(cat, a, isSchema) ==
    IF Truthy(a.schema_or_table)
    THEN (IF isSchema THEN {<<>>} ELSE SotColumns(cat, a))
    ELSE IF Truthy(a.table) THEN TableColumns(cat, a)
    ELSE {<<>>}

\* {"status": "success", "tables": tables, "columns": columns}
Completions(tables, columns) ==
    [status |-> "success", tables |-> tables, columns |-> columns]

(* ----------------------------- requests -------------------------------- *)

PrefixChars == {"U", "_"}
RECURSIVE StringsUpTo(_)
StringsUpTo(n) ==
    IF n = 0 THEN {<<>>}
    ELSE LET shorter == StringsUpTo(n - 1)
         IN  shorter \cup { <<c>> \o t : c \in PrefixChars,
                                          t \in { x \in shorter : Len(x) = n - 1 } }

\* the query arguments as get_argument sees them (None: not in the request)
DbUrlArgs == {None, <<>>, <<"d", "%", "4", "1">>}
PrefixArgs == {None, BadBytes} \cup StringsUpTo(MaxPrefixLen)
SchemaArgs == {None, Su}
TableArgs == {None, <<>>, <<"u", "s">>}
SchemaOrTableArgs == {None, <<>>, <<"u", "s">>, Su, <<"s", "u">>}

Requests ==
    [db_url : DbUrlArgs, prefix : PrefixArgs, schema : SchemaArgs,
     table : TableArgs, schema_or_table : SchemaOrTableArgs]

\* POSTGRES_URL in the environment (None: unset)
EnvValues == {None, <<"e">>}

\* str(e) of what the driver raises, and of any other exception of a call
DriverMessages == {<<"c">>, <<"c", NL, "d">>}
OtherMessages == {<<"x", NL, "y">>}
\* the order in which get reads the arguments
ArgumentOrder == <<"db_url", "prefix", "schema", "table", "schema_or_table">>
\* str(e) of tornado's HTTPError(400) for the argument `name` that does not
\* decode: the reason names the argument and shows its bytes
BadArgumentMessage(name) ==
    CASE name = "db_url" ->
           <<"HTTP 400: Bad Request (Invalid unicode in db_url: b'\\xff')">>
      [] name = "prefix" ->
           <<"HTTP 400: Bad Request (Invalid unicode in prefix: b'\\xff')">>
      [] name = "schema" ->
           <<"HTTP 400: Bad Request (Invalid unicode in schema: b'\\xff')">>
      [] name = "table" ->
           <<"HTTP 400: Bad Request (Invalid unicode in table: b'\\xff')">>
      [] OTHER ->
           <<"HTTP 400: Bad Request (Invalid unicode in schema_or_table: b'\\xff')">>

NoException == [kind |-> "none", msg |-> <<>>]
Failures ==
    { [kind |-> "psycopg2.Error", msg |-> m] : m \in DriverMessages }
      \cup { [kind |-> "Exception", msg |-> m] : m \in OtherMessages }

\* self.get_argument(name, default)
get_argument(req, name, default) ==
    IF req[name] = None THEN default ELSE req[name]

(* ------------------------------ state ---------------------------------- *)

VARIABLES
    catalog,      \* the database's information_schema, unchanged throughout
    environ,      \* os.environ.get('POSTGRES_URL')
    PSYCOPG2_AVAILABLE,
    request,      \* the query arguments of the request being handled
    pc,           \* where the handler is
    args,         \* get's locals: db_url, prefix, schema, table, schema_or_table
    is_schema,    \* _fetch_completions' local
    conn,         \* _fetch_completions' local: "None", "open" or "closed"
    opened,       \* connections psycopg2.connect has returned to this request
    closed,       \* conn.close() calls of this request
    exc,          \* the exception in flight, kept once handled
    completions,  \* what _fetch_completions returned
    status,       \* the response's HTTP status (set_status)
    written,      \* the bodies passed to self.finish, in order
    log,          \* self.log.error messages
    prev,         \* response of the same request, issued just before
    repeats       \* how often the request was issued again

vars == <<catalog, environ, PSYCOPG2_AVAILABLE, request, pc, args, is_schema,
          conn, opened, closed, exc, completions, status, written, log, prev,
          repeats>>

static == <<catalog, environ, PSYCOPG2_AVAILABLE>>

NoArgs == [db_url |-> None, prefix |-> <<>>, schema |-> Public,
           table |-> None, schema_or_table |-> None]
NoRequest == [db_url |-> None, prefix |-> None, schema |-> None,
              table |-> None, schema_or_table |-> None]
NoCompletions == [status |-> "unset"]
NoResponse == [status |-> 0, body |-> NoCompletions]

Init ==
    /\ catalog \in Catalogs
    /\ environ \in EnvValues
    /\ PSYCOPG2_AVAILABLE \in BOOLEAN
    /\ request = NoRequest
    /\ pc = "idle"
    /\ args = NoArgs
    /\ is_schema = FALSE
    /\ conn = "None"
    /\ opened = 0
    /\ closed = 0
    /\ exc = NoException
    /\ completions = NoCompletions
    /\ status = 200
    /\ written = <<>>
    /\ log = <<>>
    /\ prev = NoResponse
    /\ repeats = 0

\* a fresh handler object for a request
Start(req) ==
    /\ request' = req
    /\ args' = NoArgs
    /\ is_schema' = FALSE
    /\ conn' = "None"
    /\ opened' = 0
    /\ closed' = 0
    /\ exc' = NoException
    /\ completions' = NoCompletions
    /\ status' = 200
    /\ written' = <<>>
    /\ log' = <<>>
    /\ UNCHANGED static

\* the server routes a GET to the handler
Receive ==
    /\ pc = "idle"
    /\ \E req \in Requests : Start(req)
    /\ pc' = "get"
    /\ UNCHANGED <<prev, repeats>>

\* the request is over: its handler object is dropped
Release ==
    /\ pc = "done"
    /\ Start(NoRequest)
    /\ pc' = "idle"
    /\ prev' = NoResponse
    /\ repeats' = 0

\* the same GET again, the catalog unchanged
Repeat ==
    /\ pc = "done"
    /\ repeats < MaxRepeats
    /\ Start(request)
    /\ pc' = "get"
    /\ prev' = [status |-> status, body |-> written[Len(written)]]
    /\ repeats' = repeats + 1

(* ------------------------------- get ----------------------------------- *)

ErrorBody(text, error_msg) ==
    [status |-> "error", message |-> <<text>> \o error_msg,
     tables |-> <<>>, columns |-> <<>>]

\* lines 30-36: the driver library is missing
GetUnavailable ==
    /\ pc = "get"
    /\ ~PSYCOPG2_AVAILABLE
    /\ status' = 500
    /\ written' = Append(written,
          [status |-> "error",
           message |-> <<"psycopg2 is not installed. Install with: pip install psycopg2-binary">>])
    /\ pc' = "done"
    /\ UNCHANGED <<static, request, args, is_schema, conn, opened, closed, exc,
                   completions, log, prev, repeats>>

\* lines 39-48: read the arguments, resolve the connection string
GetArguments ==
    /\ pc = "get"
    /\ PSYCOPG2_AVAILABLE
    /\ IF \E n \in DOMAIN request : request[n] = BadBytes
       THEN /\ LET first == CHOOSE i \in 1..Len(ArgumentOrder) :
                               /\ request[ArgumentOrder[i]] = BadBytes
                               /\ \A j \in 1..(i - 1) :
                                     request[ArgumentOrder[j]] # BadBytes
                 IN  exc' = [kind |-> "Exception",
                             msg |-> BadArgumentMessage(ArgumentOrder[first])]
            /\ pc' = "except"
            /\ args' = args
       ELSE /\ args' =
                 [db_url |-> LET db_url == get_argument(request, "db_url", None)
                             IN  IF ~Truthy(db_url) THEN environ
                                 ELSE unquote(db_url),
                  prefix |-> Lower(get_argument(request, "prefix", <<>>)),
                  schema |-> get_argument(request, "schema", Public),
                  table |-> get_argument(request, "table", None),
                  schema_or_table |->
                      get_argument(request, "schema_or_table", None)]
            /\ pc' = "url"
            /\ exc' = exc
    /\ UNCHANGED <<static, request, is_schema, conn, opened, closed,
                   completions, status, written, log, prev, repeats>>

\* lines 50-57: no connection string
GetNoUrl ==
    /\ pc = "url"
    /\ ~Truthy(args.db_url)
    /\ written' = Append(written,
          [status |-> "success", tables |-> <<>>, columns |-> <<>>,
           message |-> <<"No database URL provided">>])
    /\ pc' = "done"
    /\ UNCHANGED <<static, request, args, is_schema, conn, opened, closed, exc,
                   completions, status, log, prev, repeats>>

(* ------------------------ _fetch_completions --------------------------- *)

\* a call into the driver raises
Raise ==
    /\ \E f \in Failures : exc' = f
    /\ pc' = "finally"

\* lines 59, 96-99: psycopg2.connect(db_url), conn.cursor()
Connect ==
    /\ pc = "url"
    /\ Truthy(args.db_url)
    /\ \/ /\ conn' = "open"
          /\ opened' = opened + 1
          /\ pc' = IF Truthy(args.schema_or_table) THEN "schema_check"
                   ELSE "query"
          /\ exc' = exc
       \/ /\ Raise
          /\ UNCHANGED <<conn, opened>>
    /\ UNCHANGED <<static, request, args, is_schema, closed, completions,
                   status, written, log, prev, repeats>>

\* lines 105-113: is schema_or_table a schema?
SchemaCheck ==
    /\ pc = "schema_check"
    /\ \/ /\ is_schema' = IsSchema(catalog, args.schema_or_table)
          /\ pc' = "query"
          /\ exc' = exc
       \/ /\ Raise
          /\ UNCHANGED is_schema
    /\ UNCHANGED <<static, request, args, conn, opened, closed, completions,
                   status, written, log, prev, repeats>>

\* lines 115-199: the one query of the branch, its rows shaped, the result
Query ==
    /\ pc = "query"
    /\ \/ /\ \E tables \in FetchTables(catalog, args, is_schema),
                columns \in FetchColumns(catalog, args, is_schema) :
                completions' = Completions(tables, columns)
          /\ pc' = "finally"
          /\ exc' = exc
       \/ /\ Raise
          /\ UNCHANGED completions
    /\ UNCHANGED <<static, request, args, is_schema, conn, opened, closed,
                   status, written, log, prev, repeats>>

\* variant: a finally that leaves the connection as it is
Finally_SkipClose ==
    /\ pc = "finally"
    /\ UNCHANGED <<conn, closed>>
    /\ pc' = IF exc = NoException THEN "finish" ELSE "except"
    /\ UNCHANGED <<static, request, args, is_schema, opened, exc, completions,
                   status, written, log, prev, repeats>>
\* lines 201-203: finally: if conn: conn.close()
Finally ==
    /\ pc = "finally"
    /\ IF conn # "None"
       THEN /\ conn' = "closed"
            /\ closed' = closed + 1
       ELSE UNCHANGED <<conn, closed>>
    /\ pc' = IF exc = NoException THEN "finish" ELSE "except"
    /\ UNCHANGED <<static, request, args, is_schema, opened, exc, completions,
                   status, written, log, prev, repeats>>

(* --------------------------- get, continued ---------------------------- *)

\* line 60: self.finish(json.dumps(completions))
Finish ==
    /\ pc = "finish"
    /\ written' = Append(written, completions)
    /\ pc' = "done"
    /\ UNCHANGED <<static, request, args, is_schema, conn, opened, closed, exc,
                   completions, status, log, prev, repeats>>

\* lines 62-71: except psycopg2.Error
ExceptDriver ==
    /\ pc = "except"
    /\ exc.kind = "psycopg2.Error"
    /\ LET error_msg == FirstLine(exc.msg)
       IN  /\ log' = Append(log, <<"PostgreSQL error: ">> \o error_msg)
           /\ status' = 500
           /\ written' = Append(written, ErrorBody("Database error: ", error_msg))
    /\ pc' = "done"
    /\ UNCHANGED <<static, request, args, is_schema, conn, opened, closed, exc,
                   completions, prev, repeats>>

\* lines 72-81: except Exception
ExceptOther ==
    /\ pc = "except"
    /\ exc.kind = "Exception"
    /\ LET error_msg == exc.msg
       IN  /\ log' = Append(log, <<"Completion handler error: ">> \o error_msg)
           /\ status' = 500
           /\ written' = Append(written, ErrorBody("Server error: ", error_msg))
    /\ pc' = "done"
    /\ UNCHANGED <<static, request, args, is_schema, conn, opened, closed, exc,
                   completions, prev, repeats>>

Next ==
    \/ Receive
    \/ Release
    \/ Repeat
    \/ GetUnavailable
    \/ GetArguments
    \/ GetNoUrl
    \/ Connect
    \/ SchemaCheck
    \/ Query
    \/ Finally
    \/ Finish
    \/ ExceptDriver
    \/ ExceptOther

Spec == Init /\ [][Next]_vars

(* ------------------------ observations --------------------------------- *)

Done == pc = "done"
\* the response body, once written
Body == written[Len(written)]
Success == Done /\ Body.status = "success"
Looked == Success /\ completions # NoCompletions

TypeOK ==
    /\ pc \in {"idle", "get", "url", "schema_check", "query", "finally",
               "finish", "except", "done"}
    /\ conn \in {"None", "open", "closed"}
    /\ status \in {200, 500}
    /\ Len(written) <= 1

(* ------------------------ properties ----------------------------------- *)

Range(q) == { q[i] : i \in 1..Len(q) }

\* p is a literal prefix of s
StartsWith(s, p) == Len(p) <= Len(s) /\ SubSeq(s, 1, Len(p)) = p

\* the request as sent: which arguments it carries
Decodable == \A n \in DOMAIN request : request[n] # BadBytes
Given(n) == request[n] # None /\ request[n] # <<>>
SentPrefix == IF request.prefix = None THEN <<>> ELSE request.prefix
SentSchema == IF request.schema = None THEN Public ELSE request.schema
\* the schemas whose name equals schema_or_table but for letter case
NamedSchemas ==
    { sc \in catalog.schemata : Lower(sc) = Lower(request.schema_or_table) }

\* the listable relations of a schema whose lower-cased name starts with the
\* lower-cased prefix, shaped as entries
RelationsStartingWith(sc, p) ==
    { [name |-> t.name, type |-> IF t.type = "VIEW" THEN "view" ELSE "table"] :
        t \in { x \in catalog.tables :
                  /\ x.schema = sc
                  /\ x.type \in {"BASE TABLE", "VIEW"}
                  /\ StartsWith(Lower(x.name), Lower(p)) } }

\* ordinal position of a returned column in the catalog (0: no such column)
OrdinalOf(sc, e) ==
    LET hits == { r \in InfoColumns(catalog) :
                    /\ r.table_schema = sc
                    /\ r.table_name = e.table
                    /\ r.column_name = e.name
                    /\ r.data_type = e.dataType }
    IN  IF hits = {} THEN 0 ELSE (CHOOSE r \in hits : TRUE).ordinal_position

\* C1: every response whose status is "error" carries tables = [] and
\* columns = [], on every error path (driver library missing, driver error,
\* any other exception).
C1_ErrorCarriesEmptyLists ==
    (Done /\ Body.status = "error")
        => /\ "tables" \in DOMAIN Body
           /\ "columns" \in DOMAIN Body
           /\ Body.tables = <<>>
           /\ Body.columns = <<>>

NoUrlResolvable == request.db_url \in {None, <<>>} /\ environ = None
NoUrlResponse ==
    /\ status = 200
    /\ Body.status = "success"
    /\ Body.tables = <<>>
    /\ Body.columns = <<>>
    /\ "message" \in DOMAIN Body
    /\ Body.message # <<>>
    /\ opened = 0

\* C2 as stated: with db_url absent or empty and POSTGRES_URL unset, whatever
\* the other parameters and the state of the runtime, the response is 200,
\* "success", empty lists, a non-empty message, and no connection is opened.
C2_NoUrlAlwaysSuccess ==
    (Done /\ NoUrlResolvable) => NoUrlResponse

\* C2 amended: the same, provided the driver library is available and every
\* argument decodes; no connection is opened at any point of such a request.
C2_NoUrlSuccessWhenDriverAvailable ==
    (pc # "idle" /\ NoUrlResolvable /\ PSYCOPG2_AVAILABLE /\ Decodable)
        => /\ opened = 0
           /\ conn = "None"
           /\ Done => NoUrlResponse

C2_Witness ==
    /\ Done
    /\ NoUrlResolvable
    /\ PSYCOPG2_AVAILABLE
    /\ request.db_url = <<>>
    /\ Given("schema_or_table")
    /\ Given("table")
    /\ Body.message = <<"No database URL provided">>

\* C3: a request that reaches the catalog lookup opens exactly one
\* connection, and the connection is closed before the response is written,
\* on every path; a failed connect leaves nothing open and nothing is closed
\* that was not opened; at return no connection of the request is open.
C3_ConnectionClosedBeforeResponse ==
    /\ opened <= 1
    /\ closed <= opened
    /\ conn = "open" <=> (opened = 1 /\ closed = 0)
    /\ pc \in {"schema_check", "query"} => conn = "open"
    /\ completions # NoCompletions => opened = 1
    /\ pc \in {"finish", "except", "done"} => closed = opened
    /\ Len(written) > 0 => conn # "open"

C3_Witness ==
    /\ Done
    /\ opened = 1
    /\ closed = 1
    /\ conn = "closed"
    /\ exc.kind = "psycopg2.Error"
    /\ is_schema

\* C4: in every response tables and columns are never both non-empty: the
\* schema_or_table-as-schema branch and the default branch fill only tables,
\* the schema_or_table-as-table branch and the table branch only columns.
C4_OneListFilled ==
    (Done /\ "tables" \in DOMAIN Body)
        => /\ Body.tables = <<>> \/ Body.columns = <<>>
           /\ Looked =>
                IF Given("schema_or_table")
                THEN (IF NamedSchemas # {} THEN Body.columns = <<>>
                      ELSE Body.tables = <<>>)
                ELSE IF Given("table") THEN Body.tables = <<>>
                ELSE Body.columns = <<>>

C4_Witness ==
    /\ Looked
    /\ ~Given("schema_or_table")
    /\ ~Given("table")
    /\ Len(Body.tables) >= 2
    /\ Body.columns = <<>>

\* C5: with no table and no schema_or_table, the names returned in tables
\* are exactly the tables and views of the schema whose lower-cased name
\* starts with the lower-cased prefix taken literally, and columns is empty.
C5_DefaultListsLiteralPrefix ==
    (Looked /\ ~Given("schema_or_table") /\ ~Given("table"))
        => /\ Range(Body.tables) = RelationsStartingWith(SentSchema, SentPrefix)
           /\ Body.columns = <<>>

\* C6: with a table and no schema_or_table, every entry of columns is a
\* column of exactly the table the parameter names, in the requested schema,
\* the entries come in ascending ordinal position, and tables is empty.
C6_ColumnsOfNamedTableOnly ==
    (Looked /\ ~Given("schema_or_table") /\ Given("table"))
        => /\ \A i \in 1..Len(Body.columns) :
                /\ Body.columns[i].table = request.table
                /\ OrdinalOf(SentSchema, Body.columns[i]) > 0
           /\ \A i, j \in 1..Len(Body.columns) :
                i < j => OrdinalOf(SentSchema, Body.columns[i])
                           <= OrdinalOf(SentSchema, Body.columns[j])
           /\ Body.tables = <<>>

\* C7: when schema_or_table equals the name of an existing schema but for
\* letter case, tables holds all tables and views of that schema whose
\* lower-cased name starts with prefix, tagged by kind, and columns is empty.
C7_SchemaLookupAnyCase ==
    (Looked /\ Given("schema_or_table") /\ NamedSchemas # {})
        => /\ \A sc \in NamedSchemas :
                Range(Body.tables) = RelationsStartingWith(sc, SentPrefix)
           /\ Body.columns = <<>>

\* the explicit request a schema_or_table request resolves to
ExplicitArgs(a, names_schema) ==
    IF names_schema
    THEN [a EXCEPT !.schema = a.schema_or_table, !.table = None,
                   !.schema_or_table = None]
    ELSE [a EXCEPT !.table = a.schema_or_table, !.schema_or_table = None]

\* C8: a request with schema_or_table = v answers as the explicit request it
\* resolves to: schema = v and no table when v names a schema, table = v in
\* the same schema when it names none; a table given beside it is ignored.
C8_ResolvesToExplicitRequest ==
    LET e == ExplicitArgs(args, NamedSchemas # {})
    IN  /\ (pc = "query" /\ Truthy(args.schema_or_table))
              => /\ FetchTables(catalog, args, is_schema)
                      = FetchTables(catalog, e, FALSE)
                 /\ FetchColumns(catalog, args, is_schema)
                      = FetchColumns(catalog, e, FALSE)
        /\ (Looked /\ Truthy(args.schema_or_table))
              => /\ Body.tables \in FetchTables(catalog, e, FALSE)
                 /\ Body.columns \in FetchColumns(catalog, e, FALSE)
                 /\ DOMAIN Body = {"status", "tables", "columns"}

C8_Witness ==
    /\ Looked
    /\ request.schema_or_table = Su
    /\ request.schema = None
    /\ Given("table")
    /\ Body.tables # <<>>

\* the first line of a message: its longest prefix without a line break
IsFirstLineOf(l, m) ==
    /\ StartsWith(m, l)
    /\ NL \notin Range(l)
    /\ Len(l) = Len(m) \/ m[Len(l) + 1] = NL

\* C9: a driver error is answered once, with 500 and "Database error: " plus
\* the first line of its message, empty lists; any other exception with 500
\* and "Server error: " plus the whole message; no failure leaves the
\* handler; the HTTP status is 200 exactly when the body says "success".
C9_FailuresAnswered ==
    /\ Len(written) <= 1
    /\ exc # NoException => pc \in {"finally", "except", "done"}
    /\ Done =>
         /\ Len(written) = 1
         /\ status = 200 <=> Body.status = "success"
         /\ status \in {200, 500}
         /\ exc.kind = "psycopg2.Error" =>
              /\ status = 500
              /\ DOMAIN Body = {"status", "message", "tables", "columns"}
              /\ Body.status = "error"
              /\ Body.tables = <<>> /\ Body.columns = <<>>
              /\ Head(Body.message) = "Database error: "
              /\ IsFirstLineOf(Tail(Body.message), exc.msg)
         /\ exc.kind = "Exception" =>
              /\ status = 500
              /\ Body = [status |-> "error", tables |-> <<>>, columns |-> <<>>,
                         message |-> <<"Server error: ">> \o exc.msg]

C9_Witness ==
    /\ Done
    /\ exc.kind = "psycopg2.Error"
    /\ NL \in Range(exc.msg)
    /\ completions = NoCompletions
    /\ opened = 1
    /\ Body.message = <<"Database error: ", "c">>

\* C10: the same request issued again against the unchanged catalog returns
\* the same response, in content and in order, whatever the branch.
C10_SameRequestSameResponse ==
    (Done /\ repeats > 0 /\ Body.status = "success"
          /\ prev.body.status = "success")
        => /\ Body = prev.body
           /\ status = prev.status

====
